---- MODULE Spec2Model ----
(***************************************************************************)
(* nix-weather: the store graph cache (StoreCache), its build-time closure *)
(* discovery, its concurrent, retrying narinfo fetch, and the runtime      *)
(* closure (Closure) with its coverage statistics.                         *)
(*                                                                         *)
(* A store hash is a number of 1..NumHashes.  A store path                 *)
(* "/nix/store/<hash>-<name>" is the pair <<hash, name>>.                  *)
(***************************************************************************)
EXTENDS Integers, Sequences, FiniteSets, TLC

VARIABLES
    fs,        \* the derivation files of the store: hash of the path -> Drv or NoFile
    opts,      \* the options of the run: cache_roots, retries, concurrency
    served,    \* the reference lists the cache roots may serve in a narinfo
    asked,     \* the hashes the caller asks the runtime closure of
    cache,     \* StoreCache.0 : hash -> StoreItem, NoItem where the map has no key
    pc,        \* "idle", "fetching" (inside fetch_narinfo) or "panicked"
    todo,      \* fetch_narinfo: candidates the stream has not handed out yet
    lookups,   \* fetch_narinfo: hash -> position of its fetch_first_narinfo future
    fetched,   \* fetch_narinfo: the local counter `fetched`
    sent,      \* history: hash -> cache root index -> requests its lookup has issued
    results,   \* history: hash -> outcome of its lookup in this call
    ev,        \* history: the event the last step handled
    call,      \* history: the last completed call, its arguments and what it did
    closure,   \* Closure.0 of the caller's Closure: a set of hashes
    stats,     \* the CoverageStatistics the caller got for closure, or NoStats
    walk,      \* history: the last root walked, and how often each hash was visited
    history,   \* history: hash -> how often its body ran and its file was read, so far
    parse      \* Drv::read_from: the bytes of a file, and what decoding them gave

vars == <<fs, opts, served, asked, cache, pc, todo, lookups, fetched, sent, results, ev, call,
          closure, stats, walk, history, parse>>

----------------------------------------------------------------------------
(* Bounds *)

NumHashes == 4      \* store hashes 1..NumHashes
MaxRoots == 2       \* longest list of cache roots
MaxAttempts == 2    \* largest `retries` argument
MaxConcurrency == 2 \* largest `concurrency` argument
MaxRequests == 8    \* largest |cache_roots| * retries * concurrency of a run

Hashes == 1..NumHashes

\* The lower half of the hashes, 1..NumFiles, are paths of derivation files.
NumFiles == NumHashes \div 2

----------------------------------------------------------------------------
(* StoreHash, src/src/lib.rs *)

\* StoreHash::split_path: (hash, name) of a store path
split_path(path) == <<path[1], path[2]>>

\* StoreHash::from_path: the hash of a store path
from_path(path) == path[1]

\* StoreHash::from_name: the hash of a bare store item name "<hash>-<name>"
from_name(name) == name[1]

----------------------------------------------------------------------------
(* StoreItem, src/src/lib.rs *)

NoItem == [kind |-> "None"]
Drv(drv) == [kind |-> "Drv", drv |-> drv]
NarInfo(narinfo) == [kind |-> "NarInfo", narinfo |-> narinfo]
Source(name) == [kind |-> "Source", name |-> name]
Output(name, deriver) == [kind |-> "Output", name |-> name, deriver |-> deriver]

contains_key(c, hash) == c[hash] # NoItem

insert(c, hash, item) == [c EXCEPT ![hash] = item]

\* Option<T>
None == [some |-> FALSE]
Some(x) == [some |-> TRUE, value |-> x]

\* StoreItem::as_drv
as_drv(item) == IF item.kind = "Drv" THEN Some(item.drv) ELSE None

----------------------------------------------------------------------------
(* Derivation files *)

NoFile == [name |-> "NoFile"]

\* A derivation with one output "out" at hash o, at most one input source (hash
\* s, 0 for none) and at most one input derivation (hash i, 0 for none).
DrvFile(nm, o, s, i) ==
    [ name       |-> nm,
      outputs    |-> << [key |-> "out", path |-> <<o, "out">>] >>,
      input_srcs |-> IF s = 0 THEN << >> ELSE << <<s, "src">> >>,
      input_drvs |-> IF i = 0 THEN << >>
                     ELSE << [path |-> <<i, "drv">>, outputs |-> <<"out">>] >> ]

\* The store in which the path with hash h <= NumFiles is the derivation file
\* DrvFile(h, g[h][1], g[h][2], g[h][3]), and no other path is one.
FileSystem(g) ==
    [h \in Hashes |-> IF h <= NumFiles
                      THEN DrvFile(h, g[h][1], g[h][2], g[h][3])
                      ELSE NoFile]

\* The output of a derivation is at any hash; its input source and its input
\* derivation are at the hash of a derivation file or at the first other hash.
FileChoices == [1..NumFiles -> Hashes \X (0..(NumFiles + 1)) \X (0..(NumFiles + 1))]

----------------------------------------------------------------------------
(* StoreCache::discover_build_time_closure, src/src/lib.rs:100-129 *)

RECURSIVE RegisterSources(_, _, _)
RegisterSources(c, input_srcs, k) ==
    IF k > Len(input_srcs) THEN c
    ELSE LET sp == split_path(input_srcs[k])
         IN  RegisterSources(insert(c, sp[1], Source(sp[2])), input_srcs, k + 1)

RECURSIVE RegisterOutputs(_, _, _, _)
RegisterOutputs(c, hash, outputs, k) ==
    IF k > Len(outputs) THEN c
    ELSE LET sp == split_path(outputs[k].path)
         IN  RegisterOutputs(insert(c, sp[1], Output(sp[2], hash)), hash, outputs, k + 1)

\* The early return of line 101.
AlreadyRegistered(c, hash) == contains_key(c, hash)

\* st = [cache, reads, ok, at, log]: the map, the derivation files read so far
\* by Drv::read_from, whether no read has panicked, the hash whose body is
\* running, and what the call has done so far.
Entered(hash) == [type |-> "body", hash |-> hash, from |-> 0, inserted |-> TRUE]
Read(hash, from) == [type |-> "read", hash |-> hash, from |-> from, inserted |-> TRUE]
Visited(hash, from, c) ==
    [type |-> "visit", hash |-> hash, from |-> from, inserted |-> contains_key(c, from)]

RECURSIVE discover_build_time_closure(_, _, _, _)
RECURSIVE VisitInputDrvs(_, _, _, _)

\* As discover_build_time_closure, with the insert of line 103 moved before
\* the early return of line 101.
discover_insert_first(st, files, hash, drv) ==
    IF ~st.ok THEN st
    ELSE IF AlreadyRegistered(st.cache, hash)
    THEN [st EXCEPT !.cache = insert(@, hash, Drv(drv))]
    ELSE LET c1 == insert(st.cache, hash, Drv(drv))
             c2 == RegisterSources(c1, drv.input_srcs, 1)
             c3 == RegisterOutputs(c2, hash, drv.outputs, 1)
         IN  VisitInputDrvs([st EXCEPT !.cache = c3, !.at = hash,
                                       !.log = Append(@, Entered(hash))],
                            files, drv.input_drvs, 1)

\* As discover_build_time_closure, with the loop of lines 112-117 (the
\* outputs) moved behind the loop of lines 119-128 (the input derivations).
discover_outputs_last(st, files, hash, drv) ==
    IF ~st.ok \/ AlreadyRegistered(st.cache, hash) THEN st
    ELSE LET c1 == insert(st.cache, hash, Drv(drv))
             c2 == RegisterSources(c1, drv.input_srcs, 1)
             v == VisitInputDrvs([st EXCEPT !.cache = c2, !.at = hash,
                                            !.log = Append(@, Entered(hash))],
                                 files, drv.input_drvs, 1)
         IN  IF ~v.ok THEN v
             ELSE [v EXCEPT !.cache = RegisterOutputs(@, hash, drv.outputs, 1)]

discover_build_time_closure(st, files, hash, drv) ==
    IF ~st.ok \/ AlreadyRegistered(st.cache, hash) THEN st
    ELSE LET c1 == insert(st.cache, hash, Drv(drv))
             c2 == RegisterSources(c1, drv.input_srcs, 1)
             c3 == RegisterOutputs(c2, hash, drv.outputs, 1)
         IN  VisitInputDrvs([st EXCEPT !.cache = c3, !.at = hash,
                                       !.log = Append(@, Entered(hash))],
                            files, drv.input_drvs, 1)

\* As VisitInputDrvs, with the file read whether or not the map has the Drv.
VisitInputDrvsAlwaysRead(st, files, input_drvs, k) ==
    IF k > Len(input_drvs) \/ ~st.ok THEN st
    ELSE LET h == from_path(input_drvs[k].path)
             visit == Visited(h, st.at, st.cache)
         IN  IF files[h] = NoFile
             THEN [st EXCEPT !.ok = FALSE]
             ELSE VisitInputDrvs(
                      [discover_build_time_closure(
                           [st EXCEPT !.reads = Append(@, h),
                                      !.log = @ \o << Read(h, st.at), visit >>],
                           files, h, files[h])
                         EXCEPT !.at = st.at],
                      files, input_drvs, k + 1)

\* Lines 119-128, from the k-th input derivation on, in the body of st.at.
VisitInputDrvs(st, files, input_drvs, k) ==
    IF k > Len(input_drvs) \/ ~st.ok THEN st
    ELSE LET h == from_path(input_drvs[k].path)
             known == as_drv(st.cache[h])
             visit == Visited(h, st.at, st.cache)
         IN  IF known.some
             THEN VisitInputDrvs(
                      [discover_build_time_closure(
                           [st EXCEPT !.log = Append(@, visit)], files, h, known.value)
                         EXCEPT !.at = st.at],
                      files, input_drvs, k + 1)
             ELSE IF files[h] = NoFile
             THEN [st EXCEPT !.ok = FALSE]
             ELSE VisitInputDrvs(
                      [discover_build_time_closure(
                           [st EXCEPT !.reads = Append(@, h),
                                      !.log = @ \o << Read(h, st.at), visit >>],
                           files, h, files[h])
                         EXCEPT !.at = st.at],
                      files, input_drvs, k + 1)

\* How often each hash has an entry of the given type in a log.
Count(log, type) ==
    [h \in Hashes |-> Cardinality({ k \in 1..Len(log) : log[k].type = type /\ log[k].hash = h })]

NoHistory == [bodies |-> [h \in Hashes |-> 0], reads |-> [h \in Hashes |-> 0]]

----------------------------------------------------------------------------
(* NarInfo::from, src/src/narinfo.rs:100-105 *)

\* A response body is the 3 bytes "404", a well-formed narinfo record, or
\* bytes that the narinfo grammar rejects.
Body404 == [bytes |-> "404"]
BodyGarbage == [bytes |-> "garbage"]
BodyNarInfo(refs, sig) ==
    [bytes |-> "narinfo", references |-> refs, file_size |-> 1, nar_size |-> 2,
     sig |-> sig]

\* narinfo(): the parser of lines 44-63, Ok with the record or Err
narinfo(body) ==
    IF body.bytes = "narinfo"
    THEN [ok |-> TRUE,
          info |-> [references |-> body.references, file_size |-> body.file_size,
                    nar_size |-> body.nar_size, sig |-> body.sig]]
    ELSE [ok |-> FALSE]

NarInfo_from(body) ==
    IF body = Body404 THEN None
    ELSE LET r == narinfo(body) IN IF r.ok THEN Some(r.info) ELSE None

----------------------------------------------------------------------------
(* fetch_narinfo (inner fn), src/src/lib.rs:141-149 *)

\* What one GET can bring back: a transport error from send(), a status with
\* a body, or a status whose body cannot be read (bytes() fails).
TransportError == [kind |-> "error"]
BodyError(status) == [kind |-> "bodyerror", status |-> status]
Reply(status, body) == [kind |-> "reply", status |-> status, body |-> body]

NOT_FOUND == 404

\* Result<Option<NarInfo>, reqwest::Error>
Err == [ok |-> FALSE]
Ok(v) == [ok |-> TRUE, value |-> v]

fetch_narinfo(resp) ==
    IF resp.kind = "error" THEN Err
    ELSE IF resp.status = NOT_FOUND THEN Ok(None)
    ELSE IF resp.kind = "bodyerror" THEN Err
    ELSE Ok(NarInfo_from(resp.body))

----------------------------------------------------------------------------
(* fetch_first_narinfo, src/src/lib.rs:151-173 *)

InitialDelay == 64

Idle == [phase |-> "idle"]
New == [phase |-> "new"]
Done(result) == [phase |-> "done", result |-> result]

RECURSIVE NextRequest(_, _, _, _)

\* As NextRequest, with the attempts counted 0..=max_attempts.
NextRequestInclusive(o, r, a, delay) ==
    IF r > Len(o.cache_roots) THEN Done(None)
    ELSE IF a > o.retries THEN NextRequest(o, r + 1, 0, InitialDelay)
    ELSE [phase |-> "request", root |-> r, attempt |-> a, delay |-> delay]

\* As NextRequest, with `delay` declared outside the loop over the cache roots.
NextRequestKeepDelay(o, r, a, delay) ==
    IF r > Len(o.cache_roots) THEN Done(None)
    ELSE IF a >= o.retries THEN NextRequest(o, r + 1, 0, delay)
    ELSE [phase |-> "request", root |-> r, attempt |-> a, delay |-> delay]

\* The loop heads of lines 153 and 159, entered at cache root r, attempt a:
\* the next request to issue, or the final Ok((hash, None)) of line 172.
NextRequest(o, r, a, delay) ==
    IF r > Len(o.cache_roots) THEN Done(None)
    ELSE IF a >= o.retries THEN NextRequest(o, r + 1, 0, InitialDelay)
    ELSE [phase |-> "request", root |-> r, attempt |-> a, delay |-> delay]

\* First poll of the future.
OnPoll(o) == NextRequest(o, 1, 0, InitialDelay)

\* As OnResponse, with a plain `continue` at line 163.
OnResponseContinueInner(o, l, resp) ==
    LET res == fetch_narinfo(resp)
    IN  IF ~res.ok THEN [l EXCEPT !.phase = "sleep"]
        ELSE IF res.value.some THEN Done(res.value)
        ELSE NextRequest(o, l.root, l.attempt + 1, l.delay)

\* Lines 160-167: the response to the request the lookup l waits for.
OnResponse(o, l, resp) ==
    LET res == fetch_narinfo(resp)
    IN  IF ~res.ok THEN [l EXCEPT !.phase = "sleep"]
        ELSE IF res.value.some THEN Done(res.value)
        ELSE NextRequest(o, l.root + 1, 0, InitialDelay)

\* Lines 167-169: delay_for has elapsed.
\* (delay is a u64; it stays far below 2^64 for the attempt counts explored.)
OnWake(o, l) == NextRequest(o, l.root, l.attempt + 1, l.delay * 2)

----------------------------------------------------------------------------
(* StoreCache::fetch_narinfo, src/src/lib.rs:131-201 *)

\* Lines 132-137.
output_hashes(c) == { h \in Hashes : c[h].kind = "Output" }

\* As merge, with an occupied entry always taken for a duplicate.
merge_vacant_only(c, hash, info) ==
    IF ~contains_key(c, hash) THEN insert(c, hash, NarInfo(info)) ELSE c

\* As merge, keyed by the first reference of the record instead of the hash
\* the lookup was made for.
merge_wrong_key(c, hash, info) ==
    LET key == IF info.references = << >> THEN hash ELSE from_name(info.references[1])
    IN  IF ~contains_key(c, key) \/ c[key].kind = "Output"
        THEN insert(c, key, NarInfo(info))
        ELSE c

\* Lines 190-197: merge into self without overwriting.
merge(c, hash, info) ==
    IF ~contains_key(c, hash) THEN insert(c, hash, NarInfo(info))
    ELSE IF c[hash].kind = "Output" THEN insert(c, hash, NarInfo(info))
    ELSE c

\* As HasRoom, off by one.
HasRoomInclusive(n, limit) == n <= limit

\* buffer_unordered(concurrency): may the stream hand out another future?
HasRoom(n, limit) == n < limit

InFlight == { h \in Hashes : lookups[h].phase # "idle" }

NoResp == [kind |-> "none"]
NoEvent == [type |-> "none", hash |-> 0, resp |-> NoResp]
Event(type, h, resp) == [type |-> type, hash |-> h, resp |-> resp]

Pending == [done |-> FALSE]
Resolved(r) == [done |-> TRUE, result |-> r]

NoSent == [h \in Hashes |-> [r \in 1..Len(opts.cache_roots) |-> 0]]
NoResults == [h \in Hashes |-> Pending]
NoLookups == [h \in Hashes |-> Idle]

\* CoverageStatistics::default(), not yet returned to the caller.
NoStats ==
    [returned |-> FALSE, total |-> 0, found |-> 0, file_size |-> 0, nar_size |-> 0,
     missing |-> << >>]

NoWalk == [root |-> 0, fresh |-> FALSE, expanded |-> [h \in Hashes |-> 0]]

\* The caller holds no Closure: the store is changed before it is queried.
NoQuery == closure = {} /\ stats = NoStats /\ walk = NoWalk

NoCall == [op |-> "none", hash |-> 0, prev |-> 0, pre |-> cache, reads |-> << >>, ret |-> 0,
           log |-> << >>]

\* What cache root r may answer to one GET.
Responses(r) ==
    { TransportError, BodyError(200), Reply(NOT_FOUND, BodyGarbage),
      Reply(200, Body404), Reply(200, BodyGarbage), Reply(500, BodyGarbage) }
    \cup { Reply(200, BodyNarInfo(refs, r)) : refs \in served }

\* fetch_narinfo is entered: the candidates are collected and the first poll
\* of the buffered stream hands out up to `concurrency` lookups.
FetchBegin ==
    /\ pc = "idle"
    /\ NoQuery
    /\ LET cand == output_hashes(cache)
       IN  \E S \in SUBSET cand :
             /\ S = cand \/ ~HasRoom(Cardinality(S), opts.concurrency)
             /\ S = {} \/ HasRoom(Cardinality(S) - 1, opts.concurrency)
             /\ lookups' = [h \in Hashes |-> IF h \in S THEN New ELSE Idle]
             /\ todo' = cand \ S
    /\ pc' = "fetching"
    /\ fetched' = 0
    /\ sent' = NoSent
    /\ results' = NoResults
    /\ ev' = Event("begin", 0, NoResp)
    /\ call' = [NoCall EXCEPT !.op = "fetching"]
    /\ UNCHANGED <<history, parse, fs, opts, served, asked, cache, closure, stats, walk>>

\* The lookup of h has moved to l2 while handling event e.  A finished lookup
\* is drained at once by the loop of lines 188-198, and the stream hands out
\* the next candidate.
Step(h, l2, e) ==
    /\ ev' = e
    /\ IF l2.phase = "done"
       THEN /\ results' = [results EXCEPT ![h] = Resolved(l2.result)]
            /\ sent' = [sent EXCEPT ![h] = NoSent[h]]
            /\ IF l2.result.some
               THEN /\ fetched' = fetched + 1
                    /\ cache' = merge(cache, h, l2.result.value)
               ELSE UNCHANGED <<fetched, cache>>
            /\ IF todo # {} /\ HasRoom(Cardinality(InFlight \ {h}), opts.concurrency)
               THEN \E n \in todo :
                      /\ todo' = todo \ {n}
                      /\ lookups' = [lookups EXCEPT ![h] = Idle, ![n] = New]
               ELSE /\ todo' = todo
                    /\ lookups' = [lookups EXCEPT ![h] = Idle]
       ELSE /\ lookups' = [lookups EXCEPT ![h] = l2]
            /\ sent' = IF l2.phase = "request"
                       THEN [sent EXCEPT ![h][l2.root] = @ + 1]
                       ELSE sent
            /\ UNCHANGED <<results, fetched, cache, todo>>
    /\ UNCHANGED <<history, parse, fs, opts, served, asked, pc, call, closure, stats, walk>>

FetchPoll(h) ==
    /\ pc = "fetching"
    /\ lookups[h].phase = "new"
    /\ Step(h, OnPoll(opts), Event("poll", h, NoResp))

FetchRespond(h) ==
    /\ pc = "fetching"
    /\ lookups[h].phase = "request"
    /\ \E resp \in Responses(lookups[h].root) :
         Step(h, OnResponse(opts, lookups[h], resp), Event("response", h, resp))

FetchWake(h) ==
    /\ pc = "fetching"
    /\ lookups[h].phase = "sleep"
    /\ Step(h, OnWake(opts, lookups[h]), Event("wake", h, NoResp))

\* The stream is exhausted: line 200.
FetchReturn ==
    /\ pc = "fetching"
    /\ opts.concurrency > 0
    /\ todo = {}
    /\ InFlight = {}
    /\ pc' = "idle"
    /\ call' = [call EXCEPT !.op = "fetch", !.ret = fetched]
    /\ ev' = Event("return", 0, NoResp)
    /\ UNCHANGED <<history, parse, fs, opts, served, asked, cache, todo, lookups, fetched,
                   sent, results, closure, stats, walk>>

----------------------------------------------------------------------------
(* Drv::find_name, Drv::find_output, InputDrv::resolve, src/src/derivation.rs *)

\* A string of `missing` is a number, ordered as the strings are: the string
\* of a hash is the hash, the name of a derivation lies above all of them.
to_str(hash) == hash

\* Drv::find_name: the value of the env pair "name"
find_name(drv) == NumHashes + drv.name

\* Drv::find_output: the first output with this key
find_output(drv, key) ==
    LET ks == { k \in 1..Len(drv.outputs) : drv.outputs[k].key = key }
    IN  IF ks = {} THEN None
        ELSE Some(drv.outputs[CHOOSE k \in ks : \A j \in ks : k <= j])

\* Lines 76-78: the paths of the outputs that the derivation has, in order.
RECURSIVE ResolveOutputs(_, _, _)
ResolveOutputs(drv, outputs, k) ==
    IF k > Len(outputs) THEN << >>
    ELSE LET o == find_output(drv, outputs[k])
         IN  (IF o.some THEN << o.value.path >> ELSE << >>)
                 \o ResolveOutputs(drv, outputs, k + 1)

\* InputDrv::resolve: the output paths, or the panic of line 79.
resolve(input, drvs) ==
    LET item == drvs[from_path(input.path)]
    IN  IF item.kind = "Drv"
        THEN [ok |-> TRUE, paths |-> ResolveOutputs(item.drv, input.outputs, 1)]
        ELSE [ok |-> FALSE, paths |-> << >>]

----------------------------------------------------------------------------
(* Closure::add_runtime_closure_of, src/src/lib.rs:217-238 *)

\* The state of a walk is [set, ok, expanded]: self.0, whether no panic has
\* unwound the walk, and how often each hash has passed the check of line 218.

\* Line 219, self.0.insert(hash).
Visit(st, hash) ==
    [st EXCEPT !.set = @ \cup {hash}, !.expanded[hash] = @ + 1]

RECURSIVE add_runtime_closure_of(_, _, _)
RECURSIVE VisitHashes(_, _, _, _)
RECURSIVE VisitInputs(_, _, _, _)

\* As VisitHashes, the walk ending after the first hash.
VisitFirstHash(st, hashes, k, store) ==
    IF k > Len(hashes) \/ k > 1 \/ ~st.ok THEN st
    ELSE VisitHashes(add_runtime_closure_of(st, hashes[k], store), hashes, k + 1, store)

\* for_each(|hash| self.add_runtime_closure_of(hash, store)) over hashes[k..]
VisitHashes(st, hashes, k, store) ==
    IF k > Len(hashes) \/ ~st.ok THEN st
    ELSE VisitHashes(add_runtime_closure_of(st, hashes[k], store), hashes, k + 1, store)

\* Lines 230-234: the input derivations are resolved one by one, lazily, each
\* followed by the walk of its output paths.
VisitInputs(st, input_drvs, k, store) ==
    IF k > Len(input_drvs) \/ ~st.ok THEN st
    ELSE LET r == resolve(input_drvs[k], store)
         IN  IF ~r.ok THEN [st EXCEPT !.ok = FALSE]
             ELSE VisitInputs(
                      VisitHashes(st, [j \in 1..Len(r.paths) |-> from_path(r.paths[j])],
                                  1, store),
                      input_drvs, k + 1, store)

\* As Expand, an Output having no successor.
ExpandOutputAsLeaf(st, hash, store) ==
    LET item == store[hash]
    IN  CASE item.kind = "NarInfo" ->
               VisitHashes(st, [k \in 1..Len(item.narinfo.references) |->
                                   from_name(item.narinfo.references[k])], 1, store)
          [] item.kind = "Drv" -> VisitInputs(st, item.drv.input_drvs, 1, store)
          [] OTHER -> st

\* Lines 221-237: the match on store.get(&hash).
Expand(st, hash, store) ==
    LET item == store[hash]
    IN  CASE item.kind = "NarInfo" ->
               VisitHashes(st, [k \in 1..Len(item.narinfo.references) |->
                                   from_name(item.narinfo.references[k])], 1, store)
          [] item.kind = "Output" -> add_runtime_closure_of(st, item.deriver, store)
          [] item.kind = "Drv" -> VisitInputs(st, item.drv.input_drvs, 1, store)
          [] OTHER -> st

\* As add_runtime_closure_of, the check of line 218 made in the arms of the
\* match only, not for a hash without successors.
add_unchecked_leaf(st, hash, store) ==
    IF ~st.ok THEN st
    ELSE IF hash \in st.set /\ store[hash].kind \in {"NarInfo", "Output", "Drv"} THEN st
    ELSE Expand(Visit(st, hash), hash, store)

add_runtime_closure_of(st, hash, store) ==
    IF ~st.ok THEN st
    ELSE IF hash \in st.set THEN st
    ELSE Expand(Visit(st, hash), hash, store)

----------------------------------------------------------------------------
(* Closure::coverage_statistics, src/src/lib.rs:240-272 *)

\* Lines 243-263, on [ok, stats]: ok is FALSE once the assert of line 256 failed.
RECURSIVE process(_, _, _)

\* As process, a self-deriving Output counted as nothing.
process_without_assert(st, store, hash) ==
    LET item == store[hash]
    IN  CASE item.kind = "NarInfo" ->
               [st EXCEPT !.stats.found = @ + 1,
                          !.stats.file_size = @ + item.narinfo.file_size,
                          !.stats.nar_size = @ + item.narinfo.nar_size]
          [] item.kind = "Drv" ->
               [st EXCEPT !.stats.missing = Append(@, find_name(item.drv))]
          [] item.kind = "Source" -> st
          [] item.kind = "Output" ->
               IF hash = item.deriver THEN st
               ELSE process(st, store, item.deriver)
          [] OTHER ->
               [st EXCEPT !.stats.missing = Append(@, to_str(hash))]

process(st, store, hash) ==
    LET item == store[hash]
    IN  CASE item.kind = "NarInfo" ->
               [st EXCEPT !.stats.found = @ + 1,
                          !.stats.file_size = @ + item.narinfo.file_size,
                          !.stats.nar_size = @ + item.narinfo.nar_size]
          [] item.kind = "Drv" ->
               [st EXCEPT !.stats.missing = Append(@, find_name(item.drv))]
          [] item.kind = "Source" -> st
          [] item.kind = "Output" ->
               IF hash = item.deriver THEN [st EXCEPT !.ok = FALSE]
               ELSE process(st, store, item.deriver)
          [] OTHER ->
               [st EXCEPT !.stats.missing = Append(@, to_str(hash))]

\* Lines 266-267: the loop over the hashes that are left, here in rising
\* order; the HashSet gives them in any order, which the sort of line 268
\* makes of no effect.
RECURSIVE ProcessAll(_, _, _)

\* As ProcessAll, the last hash left out.
ProcessAllButLast(st, store, left) ==
    IF Cardinality(left) <= 1 \/ ~st.ok THEN st
    ELSE LET hash == CHOOSE h \in left : \A g \in left : h <= g
         IN  ProcessAll(process(st, store, hash), store, left \ {hash})

ProcessAll(st, store, left) ==
    IF left = {} \/ ~st.ok THEN st
    ELSE LET hash == CHOOSE h \in left : \A g \in left : h <= g
         IN  ProcessAll(process(st, store, hash), store, left \ {hash})

\* Vec::sort
RECURSIVE sort(_)
sort(q) ==
    IF q = << >> THEN q
    ELSE LET rest == sort(Tail(q))
             k == Cardinality({ j \in 1..Len(rest) : rest[j] <= Head(q) })
         IN  SubSeq(rest, 1, k) \o << Head(q) >> \o SubSeq(rest, k + 1, Len(rest))

\* As dedup, nothing removed.
dedup_nothing(q) == q

\* Vec::dedup: of a run of equal elements the first is kept
RECURSIVE dedup(_)
dedup(q) ==
    IF Len(q) <= 1 THEN q
    ELSE IF q[1] = q[2] THEN dedup(Tail(q))
    ELSE << q[1] >> \o dedup(Tail(q))

\* [ok, stats]: the statistics returned, or ok = FALSE for the panic.
coverage_statistics(set, store) ==
    LET st == ProcessAll([ok |-> TRUE,
                          stats |-> [NoStats EXCEPT !.returned = TRUE,
                                                    !.total = Cardinality(set)]],
                         store, set)
    IN  IF ~st.ok THEN [ok |-> FALSE, stats |-> NoStats]
        ELSE [st EXCEPT !.stats.missing = dedup(sort(@))]

----------------------------------------------------------------------------
(* A caller of discover_build_time_closure *)

\* The caller has read the derivation at the path with hash h and calls
\* discover_build_time_closure(h, &drv).
Discover(h) ==
    /\ pc = "idle"
    /\ NoQuery
    /\ fs[h] # NoFile
    /\ LET r == discover_build_time_closure(
                    [cache |-> cache, reads |-> << >>, ok |-> TRUE, at |-> 0, log |-> << >>],
                    fs, h, fs[h])
       IN  /\ cache' = r.cache
           /\ pc' = IF r.ok THEN "idle" ELSE "panicked"
           /\ call' = [op |-> "discover", hash |-> h,
                       prev |-> IF call.op = "discover" THEN call.hash ELSE 0,
                       pre |-> cache, reads |-> r.reads, ret |-> 0, log |-> r.log]
           /\ history' = [bodies |-> [g \in Hashes |->
                                         history.bodies[g] + Count(r.log, "body")[g]],
                          reads |-> [g \in Hashes |->
                                        history.reads[g] + Count(r.log, "read")[g]]]
    /\ todo' = {}
    /\ lookups' = NoLookups
    /\ fetched' = 0
    /\ sent' = NoSent
    /\ results' = NoResults
    /\ ev' = NoEvent
    /\ UNCHANGED <<parse, fs, opts, served, asked, closure, stats, walk>>

----------------------------------------------------------------------------
(* A caller of Closure: the store is queried once fetch_narinfo has returned *)

\* The store is filled: fetch_narinfo has returned, and no call has changed
\* the store since.
Fetched == call.op \in {"fetch", "fetched"}

\* The calls on a Closure leave the store alone; of the last call on the store
\* the history keeps that it was a fetch_narinfo that returned.
QueryHistory ==
    /\ call' = [NoCall EXCEPT !.op = "fetched"]
    /\ results' = NoResults
    /\ fetched' = 0

\* Closure::empty(), lines 214-216: the caller starts a new Closure.
NewClosure ==
    /\ pc = "idle"
    /\ Fetched
    /\ ~NoQuery
    /\ closure' = {}
    /\ stats' = NoStats
    /\ walk' = NoWalk
    /\ ev' = Event("empty", 0, NoResp)
    /\ QueryHistory
    /\ UNCHANGED <<history, parse, fs, opts, served, asked, cache, pc, todo, lookups, sent>>

\* closure.add_runtime_closure_of(root, &store)
AddRuntimeClosure(root) ==
    /\ pc = "idle"
    /\ Fetched
    /\ LET r == add_runtime_closure_of(
                    [set |-> closure, ok |-> TRUE, expanded |-> walk.expanded],
                    root, cache)
       IN  /\ closure' = r.set
           /\ walk' = [root |-> root, fresh |-> closure = {}, expanded |-> r.expanded]
           /\ pc' = IF r.ok THEN "idle" ELSE "panicked"
           /\ ev' = Event(IF r.ok THEN "closure" ELSE "resolve_panic", root, NoResp)
    /\ stats' = NoStats
    /\ QueryHistory
    /\ UNCHANGED <<history, parse, fs, opts, served, asked, cache, todo, lookups, sent>>

\* closure.coverage_statistics(&store)
CoverageStatistics ==
    /\ pc = "idle"
    /\ Fetched
    /\ LET r == coverage_statistics(closure, cache)
       IN  /\ stats' = r.stats
           /\ pc' = IF r.ok THEN "idle" ELSE "panicked"
           /\ ev' = Event(IF r.ok THEN "coverage" ELSE "assert_panic", 0, NoResp)
    /\ QueryHistory
    /\ UNCHANGED <<history, parse, fs, opts, served, asked, cache, todo, lookups, sent,
                   closure, walk>>

----------------------------------------------------------------------------
(* The derivation parser, src/src/derivation.rs:83-161 *)

\* A file is a sequence of symbols: the word Derive, the punctuation of the
\* grammar, the quote, the backslash, and the letters n, t and a.  A decoded
\* string is a sequence of the same symbols and of "newline" and "tab".
\* (Bytes that are no UTF-8, which from_utf8_lossy replaces, are not among
\* them, and the word Derive is never cut in two.)
Symbols == {"Derive", "(", ")", "[", "]", ",", "quote", "backslash", "n", "t", "a"}

\* IResult: Ok((rest, out)), with the rest given as the position of its first
\* symbol; Err(Err::Error(_)); Err(Err::Incomplete(_)).
Parsed(pos, out) == [res |-> "Ok", pos |-> pos, out |-> out]
Failed(kind) == [res |-> kind]

\* nom::character::complete::char
char(c, s, i) ==
    IF i <= Len(s) /\ s[i] = c THEN Parsed(i + 1, c) ELSE Failed("Error")

\* nom::bytes::streaming::tag("Derive")
tag(s, i) ==
    IF i > Len(s) THEN Failed("Incomplete")
    ELSE IF s[i] = "Derive" THEN Parsed(i + 1, "Derive")
    ELSE Failed("Error")

\* nom::bytes::streaming::is_not("\\\""): the symbols up to the first quote or
\* backslash, of which there must be one or more, and a stop to end them.
is_not(s, i) ==
    LET stops == { j \in i..Len(s) : s[j] \in {"quote", "backslash"} }
    IN  IF stops = {} THEN Failed("Incomplete")
        ELSE LET j == CHOOSE j \in stops : \A k \in stops : j <= k
             IN  IF j = i THEN Failed("Error") ELSE Parsed(j, SubSeq(s, i, j - 1))

\* Lines 88-93: the alt of the four escapes, after the backslash.
transform(s, i) ==
    IF i > Len(s) THEN Failed("Error")
    ELSE CASE s[i] = "backslash" -> Parsed(i + 1, << "backslash" >>)
           [] s[i] = "quote" -> Parsed(i + 1, << "quote" >>)
           [] s[i] = "n" -> Parsed(i + 1, << "newline" >>)
           [] s[i] = "t" -> Parsed(i + 1, << "tab" >>)
           [] OTHER -> Failed("Error")

\* F of the value of v, with v evaluated once.
With(v, F(_)) == CHOOSE x \in { F(r) : r \in {v} } : TRUE

\* nom::bytes::streaming::escaped_transform(is_not, '\\', transform), its loop
\* entered at position index with res collected so far.
RECURSIVE escaped_transform(_, _, _)
escaped_transform(s, index, res) ==
    IF index > Len(s) THEN Failed("Incomplete")
    ELSE With(is_not(s, index), LAMBDA normal :
            CASE normal.res = "Ok" ->
                    IF normal.pos > Len(s) THEN Failed("Incomplete")
                    ELSE escaped_transform(s, normal.pos, res \o normal.out)
              [] normal.res = "Error" ->
                    IF s[index] = "backslash"
                    THEN IF index + 1 > Len(s) THEN Failed("Incomplete")
                         ELSE With(transform(s, index + 1), LAMBDA esc :
                                 IF esc.res # "Ok" THEN esc
                                 ELSE IF esc.pos > Len(s) THEN Failed("Incomplete")
                                 ELSE escaped_transform(s, esc.pos, res \o esc.out))
                    ELSE Parsed(index, res)
              [] OTHER -> normal)

\* Lines 118-123: comma, and the two halves of in_parens.
comma(s, i) == char(",", s, i)
lparen(s, i) == char("(", s, i)
rparen(s, i) == char(")", s, i)

\* nom::sequence::tuple, and with it delimited, preceded and separated_pair:
\* the parsers one after the other, the first failure returned.  r is what
\* the parsers before p have given, with their outputs in a sequence.
Start(i) == Parsed(i, << >>)

Then(r, p(_, _), s) ==
    With(r, LAMBDA x :
        IF x.res # "Ok" THEN x
        ELSE With(p(s, x.pos), LAMBDA q :
                IF q.res # "Ok" THEN q ELSE Parsed(q.pos, Append(x.out, q.out))))

\* The output of a parser p that stands between two others.
Delimited(r) == IF r.res # "Ok" THEN r ELSE Parsed(r.pos, r.out[2])

\* The position index of escaped_transform's loop at its entry.
escaped(s, i) == escaped_transform(s, i, << >>)

\* Lines 83-97: delimited(char('"'), escaped_transform(..), char('"'))
quote(s, i) == char("quote", s, i)

string(s, i) == With(Then(Then(Then(Start(i), quote, s), escaped, s), quote, s), Delimited)

\* nom::multi::separated_list(char(','), string) after its first element: res
\* has been collected and the rest begins at i.
RECURSIVE separated_strings(_, _, _)
separated_strings(s, i, res) ==
    With(Then(Then(Start(i), comma, s), string, s), LAMBDA r :
        CASE r.res = "Error" -> Parsed(i, res)
          [] r.res = "Ok" -> separated_strings(s, r.pos, Append(res, r.out[2]))
          [] OTHER -> r)

\* nom::multi::separated_list(char(','), string)
strings(s, i) ==
    With(string(s, i), LAMBDA first :
        CASE first.res = "Error" -> Parsed(i, << >>)
          [] first.res = "Ok" -> separated_strings(s, first.pos, << first.out >>)
          [] OTHER -> first)

lbracket(s, i) == char("[", s, i)
rbracket(s, i) == char("]", s, i)

\* Lines 107-116: list_of(string)
list_of_string(s, i) ==
    With(Then(Then(Then(Start(i), lbracket, s), strings, s), rbracket, s), Delimited)

\* Lines 125-133
drv_output(s, i) ==
    With(Then(Then(Then(Then(Then(Then(Then(Then(Then(Start(i),
             lparen, s), string, s), comma, s), string, s), comma, s),
             string, s), comma, s), string, s), rparen, s),
         LAMBDA r :
            IF r.res # "Ok" THEN r
            ELSE Parsed(r.pos, [key |-> r.out[2], path |-> r.out[4],
                                hash_algo |-> r.out[6], hash |-> r.out[8]]))

\* Lines 135-143
input_drv(s, i) ==
    With(Then(Then(Then(Then(Then(Start(i),
             lparen, s), string, s), comma, s), list_of_string, s), rparen, s),
         LAMBDA r :
            IF r.res # "Ok" THEN r
            ELSE Parsed(r.pos, [path |-> r.out[2], outputs |-> r.out[4]]))

\* Lines 146-148 and 99-105: pair(string, string)
pair_string_string(s, i) ==
    With(Then(Then(Then(Then(Then(Start(i),
             lparen, s), string, s), comma, s), string, s), rparen, s),
         LAMBDA r :
            IF r.res # "Ok" THEN r ELSE Parsed(r.pos, << r.out[2], r.out[4] >>))

\* The parser p of a list_of(p) other than list_of(string), by its name.
Item(p, s, i) ==
    CASE p = "drv_output" -> drv_output(s, i)
      [] p = "input_drv" -> input_drv(s, i)
      [] OTHER -> pair_string_string(s, i)

\* nom::multi::separated_list(char(','), p) after its first element.
RECURSIVE separated_list(_, _, _, _)
separated_list(p, s, i, res) ==
    With(comma(s, i), LAMBDA sep :
        IF sep.res # "Ok" THEN Parsed(i, res)
        ELSE With(Item(p, s, sep.pos), LAMBDA r :
                CASE r.res = "Error" -> Parsed(i, res)
                  [] r.res = "Ok" -> separated_list(p, s, r.pos, Append(res, r.out))
                  [] OTHER -> r))

\* Lines 107-116: list_of(p)
list_of(p, s, i) ==
    With(lbracket(s, i), LAMBDA open :
        IF open.res # "Ok" THEN open
        ELSE With(Item(p, s, open.pos), LAMBDA first :
             With(CASE first.res = "Error" -> Parsed(open.pos, << >>)
                    [] first.res = "Ok" ->
                         separated_list(p, s, first.pos, << first.out >>)
                    [] OTHER -> first,
                  LAMBDA items :
                     IF items.res # "Ok" THEN items
                     ELSE With(rbracket(s, items.pos), LAMBDA close :
                             IF close.res # "Ok" THEN close
                             ELSE Parsed(close.pos, items.out)))))

list_of_drv_output(s, i) == list_of("drv_output", s, i)
list_of_input_drv(s, i) == list_of("input_drv", s, i)
list_of_pair_string_string(s, i) == list_of("pair_string_string", s, i)

\* Lines 145-161
drv(s, i) ==
    With(Then(Then(Then(Then(Then(Then(Then(Then(Then(Then(Then(Then(Then(Then(Then(Then(
             Start(i),
             tag, s), lparen, s),
             list_of_drv_output, s), comma, s),
             list_of_input_drv, s), comma, s),
             list_of_string, s), comma, s),
             string, s), comma, s),
             string, s), comma, s),
             list_of_string, s), comma, s),
             list_of_pair_string_string, s), rparen, s),
         LAMBDA r :
            IF r.res # "Ok" THEN r
            ELSE Parsed(r.pos, [outputs |-> r.out[3], input_drvs |-> r.out[5],
                                input_srcs |-> r.out[7], platform |-> r.out[9],
                                builder |-> r.out[11], builder_args |-> r.out[13],
                                env |-> r.out[15]]))

\* What a call of Drv::read_from has given: nothing yet, a Drv, or a panic.
NotRead == [state |-> "none"]
Returned(d) == [state |-> "ok", drv |-> d]
Panicked == [state |-> "panic"]

\* As read_from, without the assert of line 40.
read_from_unchecked_rest(s) ==
    With(drv(s, 1), LAMBDA r :
        IF r.res # "Ok" THEN Panicked ELSE Returned(r.out))

\* Drv::read_from, lines 36-42, of a file that can be read: the expect of
\* line 39 and the assert of line 40.
read_from(s) ==
    With(drv(s, 1), LAMBDA r :
        IF r.res # "Ok" THEN Panicked
        ELSE IF r.pos <= Len(s) THEN Panicked
        ELSE Returned(r.out))

----------------------------------------------------------------------------
(* Derivation files as texts *)

\* A symbol of a text and its place: the quote that opens or closes a string,
\* the first symbol of a character of a string ("body"), the second symbol of
\* an escape ("esc"), or a symbol of the grammar ("punct").
Mark(sym, role) == [sym |-> sym, role |-> role]

PrintChar(c) ==
    CASE c = "backslash" -> << Mark("backslash", "body"), Mark("backslash", "esc") >>
      [] c = "quote" -> << Mark("backslash", "body"), Mark("quote", "esc") >>
      [] c = "newline" -> << Mark("backslash", "body"), Mark("n", "esc") >>
      [] c = "tab" -> << Mark("backslash", "body"), Mark("t", "esc") >>
      [] OTHER -> << Mark(c, "body") >>

RECURSIVE PrintChars(_)
PrintChars(str) ==
    IF str = << >> THEN << >> ELSE PrintChar(Head(str)) \o PrintChars(Tail(str))

PrintString(str) ==
    << Mark("quote", "open") >> \o PrintChars(str) \o << Mark("quote", "close") >>

Punct(sym) == << Mark(sym, "punct") >>

RECURSIVE PrintStrings(_)
PrintStrings(strs) ==
    IF strs = << >> THEN << >>
    ELSE PrintString(Head(strs))
            \o (IF Len(strs) > 1 THEN Punct(",") ELSE << >>) \o PrintStrings(Tail(strs))

PrintStringList(strs) == Punct("[") \o PrintStrings(strs) \o Punct("]")

PrintItem(kind, x) ==
    CASE kind = "drv_output" ->
            Punct("(") \o PrintString(x.key) \o Punct(",") \o PrintString(x.path)
                \o Punct(",") \o PrintString(x.hash_algo) \o Punct(",")
                \o PrintString(x.hash) \o Punct(")")
      [] kind = "input_drv" ->
            Punct("(") \o PrintString(x.path) \o Punct(",")
                \o PrintStringList(x.outputs) \o Punct(")")
      [] OTHER ->
            Punct("(") \o PrintString(x[1]) \o Punct(",") \o PrintString(x[2]) \o Punct(")")

RECURSIVE PrintItems(_, _)
PrintItems(kind, xs) ==
    IF xs = << >> THEN << >>
    ELSE PrintItem(kind, Head(xs))
            \o (IF Len(xs) > 1 THEN Punct(",") ELSE << >>) \o PrintItems(kind, Tail(xs))

PrintList(kind, xs) == Punct("[") \o PrintItems(kind, xs) \o Punct("]")

\* The text of a derivation, as the grammar of lines 145-161 has it.
PrintDrv(d) ==
    Punct("Derive") \o Punct("(")
        \o PrintList("drv_output", d.outputs) \o Punct(",")
        \o PrintList("input_drv", d.input_drvs) \o Punct(",")
        \o PrintStringList(d.input_srcs) \o Punct(",")
        \o PrintString(d.platform) \o Punct(",")
        \o PrintString(d.builder) \o Punct(",")
        \o PrintStringList(d.builder_args) \o Punct(",")
        \o PrintList("pair_string_string", d.env)
        \o Punct(")")

Unparse(d) == LET marked == PrintDrv(d) IN [k \in 1..Len(marked) |-> marked[k].sym]

\* Derivations to start from: one with nothing in it, one with an entry in
\* each list and every escape, one with lists of two.
Samples ==
    << [ outputs |-> << >>, input_drvs |-> << >>, input_srcs |-> << >>,
         platform |-> << >>, builder |-> << >>, builder_args |-> << >>, env |-> << >> ],
       [ outputs |-> << [key |-> << "a" >>, path |-> << "a", "n" >>,
                         hash_algo |-> << >>, hash |-> << >>] >>,
         input_drvs |-> << [path |-> << "a" >>, outputs |-> << << "a" >>, << "t" >> >>] >>,
         input_srcs |-> << << "(" >> >>,
         platform |-> << "a" >>,
         builder |-> << "quote", "backslash" >>,
         builder_args |-> << << "newline", "tab" >> >>,
         env |-> << << << "n" >>, << "a", "," >> >> >> ],
       [ outputs |-> << [key |-> << "a" >>, path |-> << >>,
                         hash_algo |-> << >>, hash |-> << >>],
                        [key |-> << "t" >>, path |-> << >>,
                         hash_algo |-> << >>, hash |-> << >>] >>,
         input_drvs |-> << >>,
         input_srcs |-> << << >>, << "]" >> >>,
         platform |-> << >>,
         builder |-> << "a" >>,
         builder_args |-> << >>,
         env |-> << << << "a" >>, << >> >>, << << "n" >>, << "quote" >> >> >> ] >>

\* Their texts, with the place of each symbol and without.
SampleMarks == [k \in 1..Len(Samples) |-> PrintDrv(Samples[k])]
SampleTexts == [k \in 1..Len(Samples) |-> Unparse(Samples[k])]

\* One change to a text: a symbol put in before position pos, a backslash and
\* a symbol put in there, the symbol there replaced or left out, the text cut
\* off from there on; or no change.
NoEdit == [kind |-> "none", pos |-> 0, sym |-> "a"]

Edits(text) ==
    { NoEdit }
        \cup [kind : {"insert", "escape"}, pos : 1..(Len(text) + 1), sym : Symbols]
        \cup [kind : {"replace"}, pos : 1..Len(text), sym : Symbols]
        \cup [kind : {"delete", "truncate"}, pos : 1..Len(text), sym : {"a"}]

Apply(e, text) ==
    LET before == SubSeq(text, 1, e.pos - 1)
        from == SubSeq(text, e.pos, Len(text))
    IN  CASE e.kind = "insert" -> before \o << e.sym >> \o from
          [] e.kind = "escape" -> before \o << "backslash", e.sym >> \o from
          [] e.kind = "replace" -> before \o << e.sym >> \o Tail(from)
          [] e.kind = "delete" -> before \o Tail(from)
          [] e.kind = "truncate" -> before
          [] OTHER -> text

NoParse == [text |-> << >>, from |-> 0, edit |-> NoEdit, result |-> NotRead]

\* Drv::read_from(path), of the file whose content is parse.text
ReadFrom ==
    /\ parse.result = NotRead
    /\ parse.text # << >>
    /\ parse' = [parse EXCEPT !.result = read_from(parse.text)]
    /\ UNCHANGED <<history, fs, opts, served, asked, cache, pc, todo, lookups, fetched,
                   sent, results, ev, call, closure, stats, walk>>

----------------------------------------------------------------------------
(* Specifications *)

Options(roots, attempts, conc) ==
    { [cache_roots |-> [r \in 1..t[1] |-> r], retries |-> t[2], concurrency |-> t[3]] :
        t \in { t \in roots \X attempts \X conc : t[1] * t[2] * t[3] <= MaxRequests } }

InitRest ==
    /\ cache = [h \in Hashes |-> NoItem]
    /\ pc = "idle"
    /\ todo = {}
    /\ lookups = NoLookups
    /\ fetched = 0
    /\ sent = NoSent
    /\ results = NoResults
    /\ ev = NoEvent
    /\ call = NoCall
    /\ closure = {}
    /\ stats = NoStats
    /\ walk = NoWalk
    /\ history = NoHistory

\* Any derivation files, one cache root.
Init ==
    /\ \E g \in FileChoices : fs = FileSystem(g)
    /\ opts \in Options({1}, {1}, {1})
    /\ served = { << >> }
    /\ asked = {1}
    /\ parse = NoParse
    /\ InitRest

\* One derivation whose outputs are all the other hashes but the last, which
\* the cache never has an entry of; any options; the cache roots serve records
\* without references or with one to that last hash.
FetchFiles ==
    [h \in Hashes |->
        IF h = 1
        THEN [ name |-> 1,
               outputs |-> [k \in 1..(NumHashes - 2) |->
                               [key |-> k, path |-> <<k + 1, "out">>]],
               input_srcs |-> << >>,
               input_drvs |-> << >> ]
        ELSE NoFile]

InitFetch ==
    /\ fs = FetchFiles
    /\ opts \in Options(0..MaxRoots, 0..MaxAttempts, 0..MaxConcurrency)
    /\ served = { << >>, << <<NumHashes, "ref">> >> }
    /\ asked = {1}
    /\ parse = NoParse
    /\ InitRest

\* Few derivation files: the first has no input source and the second as its
\* only possible input derivation, the others have no input derivation and
\* the first hash without a file as their only possible input source.
ClosureChoices ==
    { g \in FileChoices :
        \A h \in 1..NumFiles :
            /\ g[h][2] \in (IF h = 1 THEN {0} ELSE {0, NumFiles + 1})
            /\ g[h][3] \in (IF h = 1 THEN {0, 2} ELSE {0}) }

\* One derivation with two outputs, the second at the hash of its own path.
TwoOutputFiles ==
    [h \in Hashes |->
        IF h = 1
        THEN [ name |-> 1,
               outputs |-> << [key |-> "out", path |-> <<NumHashes, "out">>],
                              [key |-> "dev", path |-> <<1, "dev">>] >>,
               input_srcs |-> << >>,
               input_drvs |-> << >> ]
        ELSE NoFile]

\* The reference lists of the records served: none, the first hash without a
\* file, the last hash, or the first and the last hash.
ClosureServed ==
    { << >>,
      << <<NumFiles + 1, "ref">> >>,
      << <<NumHashes, "ref">> >>,
      << <<1, "ref">>, <<NumHashes, "ref">> >> }

\* Few derivation files, records with any references, any hash asked for.
InitClosure ==
    /\ \/ \E g \in ClosureChoices : fs = FileSystem(g)
       \/ fs = TwoOutputFiles
    /\ opts \in Options({1}, {1}, {1})
    /\ served = ClosureServed
    /\ asked = Hashes
    /\ parse = NoParse
    /\ InitRest

\* A file holds the text of a derivation with at most one change; nothing is
\* discovered or fetched.
InitParse ==
    /\ fs = [h \in Hashes |-> NoFile]
    /\ opts \in Options({1}, {1}, {1})
    /\ served = { << >> }
    /\ asked = {1}
    /\ \E k \in 1..Len(Samples) : \E e \in Edits(SampleTexts[k]) :
          parse = [text |-> Apply(e, SampleTexts[k]), from |-> k, edit |-> e,
                   result |-> NotRead]
    /\ InitRest

Next ==
    \/ \E h \in Hashes : Discover(h)
    \/ FetchBegin
    \/ \E h \in Hashes : FetchPoll(h)
    \/ \E h \in Hashes : FetchRespond(h)
    \/ \E h \in Hashes : FetchWake(h)
    \/ FetchReturn
    \/ NewClosure
    \/ \E root \in asked : AddRuntimeClosure(root)
    \/ CoverageStatistics

Spec == Init /\ [][Next]_vars

SpecFetch == InitFetch /\ [][Next]_vars

SpecClosure == InitClosure /\ [][Next]_vars

\* The decoding of derivation files alone.
NextParse == ReadFrom

SpecParse == InitParse /\ [][NextParse]_vars

\* fetch_narinfo is awaited to its end: the executor keeps polling the stream,
\* every request is answered and every backoff timer fires.
LiveFetch ==
    /\ SpecFetch
    /\ WF_vars(\E h \in Hashes : FetchPoll(h) \/ FetchRespond(h) \/ FetchWake(h))
    /\ WF_vars(FetchReturn)

----------------------------------------------------------------------------
(* Properties of discovery *)

Seqs(q) == { q[k] : k \in 1..Len(q) }

IsDrvItem(item) == item.kind = "Drv"

IsDrv(h) == cache[h].kind = "Drv"

\* C1: closure completeness.  After every completed call, for every hash
\* whose item is a Drv, the hash of every input source and of every declared
\* output is a key of the cache, and the hash of every input derivation is
\* in the cache as a Drv (and so, in turn, has the same property).
C1_ClosureComplete ==
    pc = "idle" =>
        \A h \in Hashes : IsDrv(h) =>
            /\ \A p \in Seqs(cache[h].drv.input_srcs) : contains_key(cache, from_path(p))
            /\ \A o \in Seqs(cache[h].drv.outputs) : contains_key(cache, from_path(o.path))
            /\ \A i \in Seqs(cache[h].drv.input_drvs) : IsDrv(from_path(i.path))

\* May the entry `old` of a hash become `new` in one call?
KindChangeAllowed(old, new) ==
    \/ old.kind = "None"
    \/ old.kind = "Output" /\ new.kind = "NarInfo"
    \/ /\ old.kind = new.kind
       /\ old.kind = "Output" => old.deriver = new.deriver

\* C2: an entry's kind changes only from Output to NarInfo, and an Output
\* keeps its deriver, in every step of every sequence of calls.
C2_KindsOnlyUpgrade ==
    [][\A h \in Hashes : KindChangeAllowed(cache[h], cache'[h])]_vars

\* C3: idempotence.  A call of discover_build_time_closure that follows at
\* once a call with the same hash and derivation completes, leaves every
\* entry of the cache as it was and reads no derivation file.
C3_DiscoverIdempotent ==
    (call.op = "discover" /\ call.prev = call.hash) =>
        /\ pc = "idle"
        /\ cache = call.pre
        /\ call.reads = << >>

\* The second of two equal calls is done, on a derivation whose first call
\* read an input derivation and whose entry an output then replaced.
C3_Witness ==
    /\ call.op = "discover"
    /\ call.prev = call.hash
    /\ fs[call.hash].input_drvs # << >>
    /\ cache[call.hash].kind = "Output"
    /\ \E h \in Hashes : h # call.hash /\ IsDrv(h)

----------------------------------------------------------------------------
(* Properties of fetch_narinfo *)

Found(res) == { h \in Hashes : res[h].done /\ res[h].result.some }

\* The cache that the outcomes res give from the cache c0, whatever the order.
MergedCache(c0, res) ==
    [h \in Hashes |->
        IF h \in Found(res) /\ c0[h].kind \in {"None", "Output"}
        THEN NarInfo(res[h].result.value)
        ELSE c0[h]]

\* C4: the cache and the count that fetch_narinfo returns with are a function
\* of the cache it started from and of the outcome of each lookup, whatever
\* the order in which the lookups completed and were merged.
C4_MergeOrderIndependent ==
    call.op = "fetch" =>
        /\ cache = MergedCache(call.pre, results)
        /\ call.ret = Cardinality(Found(results))

\* A call in which two lookups ran at once and both found a record.
C4_Witness ==
    /\ call.op = "fetch"
    /\ opts.concurrency >= 2
    /\ Cardinality(Found(results)) >= 2
    /\ \E h \in Found(results) : results[h].result.value.sig = 2

\* Status 404, or a body of exactly the bytes "404".
IsAbsent(resp) ==
    \/ resp.kind = "reply" /\ resp.status = NOT_FOUND
    \/ resp.kind = "reply" /\ resp.body = Body404

\* The step handles a response to the request of h.
Responded(h) == lookups[h].phase = "request" /\ ev'.type = "response" /\ ev'.hash = h

Waiting(l) == l.phase \in {"request", "sleep"}

LastRoot(l) == l.root = Len(opts.cache_roots)

\* The lookup of h leaves the cache root of l: its next request is the first
\* one to the next root, or it has resolved to `not found` after the last root.
MovesOn(h, l) ==
    IF LastRoot(l)
    THEN /\ lookups'[h].phase = "idle"
         /\ results'[h] = Resolved(None)
         /\ sent'[h] = NoSent[h]
    ELSE /\ lookups'[h] = [phase |-> "request", root |-> l.root + 1,
                            attempt |-> 0, delay |-> InitialDelay]
         /\ sent'[h] = [sent[h] EXCEPT ![l.root + 1] = 1]

\* C5: an absent answer (status 404 or the body "404") ends the attempts at
\* that cache root at once: no wait, no further request to that root, the
\* next request goes to the next root; no record is made of a "404" body.
C5_AbsentEndsRoot ==
    [][\A h \in Hashes :
         /\ (Responded(h) /\ IsAbsent(ev'.resp)) => MovesOn(h, lookups[h])
         /\ (Waiting(lookups[h]) /\ Waiting(lookups'[h]) /\ pc' = "fetching" /\ pc = "fetching")
                => lookups'[h].root >= lookups[h].root
         /\ \A r \in 1..Len(opts.cache_roots) :
                (sent'[h][r] > sent[h][r]) => (Waiting(lookups'[h]) /\ lookups'[h].root = r)
      ]_vars

\* The body "404" from the first of two cache roots has sent the lookup to
\* the second root.
C5_Witness ==
    /\ ev.type = "response"
    /\ ev.resp = Reply(200, Body404)
    /\ lookups[ev.hash].phase = "request"
    /\ lookups[ev.hash].root = 2
    /\ sent[ev.hash] = <<1, 1>>

\* send() or bytes() has failed.
IsTransportError(resp) == resp.kind \in {"error", "bodyerror"}

\* C6: a transport error consumes one attempt and the next attempt goes to
\* the same cache root; no root gets more than max_attempts requests; after
\* max_attempts failed attempts the lookup moves to the next root, and after
\* the last root it resolves to `not found`.
C6_RetryBudget ==
    [][\A h \in Hashes :
         /\ \A r \in 1..Len(opts.cache_roots) : sent'[h][r] <= opts.retries
         /\ (Responded(h) /\ IsTransportError(ev'.resp))
                => /\ lookups'[h] = [lookups[h] EXCEPT !.phase = "sleep"]
                   /\ sent' = sent
         /\ (lookups[h].phase = "sleep" /\ ev'.type = "wake" /\ ev'.hash = h)
                => IF sent[h][lookups[h].root] < opts.retries
                   THEN /\ lookups'[h].phase = "request"
                        /\ lookups'[h].root = lookups[h].root
                        /\ sent'[h][lookups[h].root] = sent[h][lookups[h].root] + 1
                   ELSE MovesOn(h, lookups[h])
      ]_vars

\* A lookup has used every attempt at the first cache root, then at the
\* second, and now waits for the last time.
C6_Witness ==
    \E h \in Hashes :
        /\ opts.retries = 2
        /\ sent[h] = <<2, 2>>
        /\ lookups[h].phase = "sleep"

\* Neither absent nor a well-formed record.
IsMalformed(resp) ==
    /\ resp.kind = "reply"
    /\ resp.status # NOT_FOUND
    /\ resp.body = BodyGarbage

\* C7: a response that is neither absent nor a well-formed record is treated
\* like a transport error: it is followed by the backoff wait and a retry
\* against the same cache root.
C7_MalformedIsRetried ==
    [][\A h \in Hashes :
         (Responded(h) /\ IsMalformed(ev'.resp))
            => /\ lookups'[h] = [lookups[h] EXCEPT !.phase = "sleep"]
               /\ sent' = sent
      ]_vars

\* C8: the wait after the k-th failed attempt at a cache root is 64 * 2^k
\* milliseconds, k counted from 0 at each root.
C8_BackoffSchedule ==
    \A h \in Hashes :
        Waiting(lookups[h]) =>
            lookups[h].delay = InitialDelay * 2 ^ (sent[h][lookups[h].root] - 1)

\* A lookup waits after its first failed attempt at the second cache root,
\* having waited twice at the first.
C8_Witness ==
    \E h \in Hashes :
        /\ lookups[h].phase = "sleep"
        /\ lookups[h].root = 2
        /\ sent[h] = <<2, 1>>

\* C9: the lookups started and not yet completed are never more than the
\* concurrency argument.
C9_BoundedConcurrency ==
    Cardinality(InFlight) <= opts.concurrency

\* The limit is reached while a candidate still waits to be started.
C9_Witness ==
    /\ opts.concurrency >= 1
    /\ Cardinality(InFlight) = opts.concurrency
    /\ todo # {}
    /\ \E h \in InFlight : lookups[h].phase = "sleep"

\* C10: during fetch_narinfo the cache changes only in the step that drains
\* one completed lookup, and only at the hash of that lookup; a lookup that
\* stays in flight changes nothing in the cache.
C10_SingleWriter ==
    [][(pc = "fetching" /\ cache' # cache) =>
          \E h \in Hashes :
             /\ ev'.hash = h
             /\ lookups[h].phase = "request"
             /\ lookups'[h].phase = "idle"
             /\ ~results[h].done
             /\ results'[h].done /\ results'[h].result.some
             /\ fetched' = fetched + 1
             /\ \A g \in Hashes \ {h} :
                    /\ cache'[g] = cache[g]
                    /\ results'[g] = results[g]
      ]_vars

\* A record has been merged while another lookup was in flight.
C10_Witness ==
    /\ pc = "fetching"
    /\ fetched = 1
    /\ \E h \in Hashes : cache[h].kind = "NarInfo" /\ results[h].done
    /\ \E g \in InFlight : lookups[g].phase = "request"

----------------------------------------------------------------------------
(* The return value and the frame of fetch_narinfo *)

\* The hashes whose entry differs between the caches c0 and c.
Changed(c0, c) == { h \in Hashes : c[h] # c0[h] }

\* C11: the value fetch_narinfo returns is the number of entries the call
\* inserted or upgraded from Output to NarInfo; a successful lookup that
\* changed no entry is not in the count.
C11_ReturnCountsMerges ==
    call.op = "fetch" =>
        call.ret = Cardinality(Changed(call.pre, cache))

\* A call that upgraded one entry and left another Output as it was, its
\* lookup having found nothing.
C11_Witness ==
    /\ call.op = "fetch"
    /\ call.ret = 1
    /\ \E h \in Hashes : call.pre[h].kind = "Output" /\ cache[h].kind = "NarInfo"
    /\ \E h \in Hashes :
          /\ cache[h].kind = "Output"
          /\ results[h].done /\ ~results[h].result.some

\* C12: from its entry to its return fetch_narinfo keeps the set of keys, and
\* keeps every entry that was not an Output when the call began as it was.
C12_OnlyOutputsChange ==
    call.op \in {"fetching", "fetch"} =>
        \A h \in Hashes :
            /\ contains_key(cache, h) <=> contains_key(call.pre, h)
            /\ call.pre[h].kind # "Output" => cache[h] = call.pre[h]

\* A call has returned that upgraded an Output whose record names a hash the
\* cache has no entry of, next to the Drv entry of its deriver.
C12_Witness ==
    /\ call.op = "fetch"
    /\ \E h \in Hashes :
          /\ call.pre[h].kind = "Output"
          /\ cache[h].kind = "NarInfo"
          /\ cache[h].narinfo.references # << >>
          /\ ~contains_key(cache, from_name(cache[h].narinfo.references[1]))
          /\ IsDrv(call.pre[h].deriver)

\* C13: termination.  Every call of fetch_narinfo returns, for every list of
\* cache roots, every `retries` and every `concurrency` from 0 upwards.
C13_FetchReturns == (pc = "fetching") ~> (pc = "idle")

----------------------------------------------------------------------------
(* Properties of Closure *)

\* C14: termination.  Every walk of add_runtime_closure_of ends, on a store
\* with cycles too, having passed the check of line 218 once for each hash
\* of the Closure and for no other hash.
C14_EachHashExpandedOnce ==
    \A h \in Hashes : walk.expanded[h] = (IF h \in closure THEN 1 ELSE 0)

\* A walk has returned from a store in which two NarInfo refer to each other.
C14_Witness ==
    /\ ev.type = "closure"
    /\ \E a, b \in closure :
          /\ a # b
          /\ cache[a].kind = "NarInfo" /\ cache[b].kind = "NarInfo"
          /\ b \in { from_name(n) : n \in Seqs(cache[a].narinfo.references) }
          /\ a \in { from_name(n) : n \in Seqs(cache[b].narinfo.references) }

\* The hashes that the entry of h leads to in one step.
Successors(c, h) ==
    CASE c[h].kind = "NarInfo" -> { from_name(n) : n \in Seqs(c[h].narinfo.references) }
      [] c[h].kind = "Output" -> { c[h].deriver }
      [] c[h].kind = "Drv" ->
           UNION { IF IsDrvItem(c[from_path(input.path)])
                   THEN LET outs == c[from_path(input.path)].drv.outputs
                        IN  { from_path(outs[k].path) :
                                k \in { k \in 1..Len(outs) :
                                          /\ outs[k].key \in Seqs(input.outputs)
                                          /\ \A j \in 1..(k - 1) : outs[j].key # outs[k].key } }
                   ELSE {} : input \in Seqs(c[h].drv.input_drvs) }
      [] OTHER -> {}

\* The least set that contains S and the successors of each of its hashes.
RECURSIVE Reachable(_, _)
Reachable(c, S) ==
    LET T == S \cup UNION { Successors(c, h) : h \in S }
    IN  IF T = S THEN S ELSE Reachable(c, T)

\* C15: a call of add_runtime_closure_of that returns has added to the Closure
\* exactly the least set that contains the root and is closed under the
\* successors; on an empty Closure the result is that set.
C15_LeastClosedSet ==
    [][ev'.type = "closure" =>
          closure' = closure \cup Reachable(cache, {ev'.hash})]_vars

\* A second root has been walked into a Closure, which holds a NarInfo with a
\* reference, an Output and a Drv with an input derivation.
C15_Witness ==
    /\ ev.type = "closure"
    /\ ~walk.fresh
    /\ \E a, b, d \in closure :
          /\ cache[a].kind = "NarInfo" /\ cache[a].narinfo.references # << >>
          /\ cache[b].kind = "Output"
          /\ cache[d].kind = "Drv" /\ cache[d].drv.input_drvs # << >>

\* C16: no call of add_runtime_closure_of, on a store filled by completed
\* calls of discover_build_time_closure and fetch_narinfo, panics in
\* InputDrv::resolve.
C16_ResolveNeverPanics == ev.type # "resolve_panic"

----------------------------------------------------------------------------
(* Properties of coverage_statistics *)

\* The derivation A with the input derivation B, each with one output.
ScenarioFiles ==
    FileSystem([h \in 1..NumFiles |-> IF h = 1 THEN <<3, 0, 2>> ELSE <<NumHashes, 0, 0>>])

\* A and B are discovered, fetch_narinfo has found no record, and the caller
\* has the statistics of the runtime closure of the output of A.
Scenario ==
    /\ fs = ScenarioFiles
    /\ call.op = "fetched"
    /\ IsDrv(1) /\ IsDrv(2)
    /\ \A h \in Hashes : cache[h].kind # "NarInfo"
    /\ walk.fresh /\ walk.root = from_path(fs[1].outputs[1].path)
    /\ stats.returned

\* C17 as stated: the statistics are total = 1, found = 0, missing = ["A"].
C17_ScenarioAsStated ==
    Scenario =>
        /\ stats.total = 1
        /\ stats.found = 0
        /\ stats.missing = << find_name(fs[1]) >>

\* C17: in the scenario the closure is the output of A, A, the output of B and
\* B, and the statistics are total = 4, found = 0, missing = ["A", "B"].
C17_ScenarioStatistics ==
    Scenario =>
        /\ closure = {1, 2, 3, NumHashes}
        /\ stats.total = 4
        /\ stats.found = 0
        /\ stats.missing = << find_name(fs[1]), find_name(fs[2]) >>

\* The statistics of the scenario have just been returned.
C17_Witness == Scenario /\ ev.type = "coverage"

\* The hashes on the deriver chain of h: h, and the deriver of each Output.
RECURSIVE DeriverChain(_, _)
DeriverChain(c, S) ==
    LET T == S \cup { c[h].deriver : h \in { g \in S : c[g].kind = "Output" } }
    IN  IF T = S THEN S ELSE DeriverChain(c, T)

SelfDeriving(c, h) == c[h].kind = "Output" /\ c[h].deriver = h

\* C18: coverage_statistics panics, and gives no statistics, exactly if the
\* deriver chain of a hash of the Closure holds an Output stored under the
\* hash of its own deriver.
C18_SelfDerivationPanics ==
    ev.type \in {"coverage", "assert_panic"} =>
        /\ ev.type = "assert_panic" <=>
              \E h \in closure : \E g \in DeriverChain(cache, {h}) : SelfDeriving(cache, g)
        /\ ev.type = "assert_panic" => pc = "panicked" /\ ~stats.returned

\* The panic, in a Closure with an Output whose deriver is another hash, the
\* entry of which is an Output deriving itself.
C18_Witness ==
    /\ ev.type = "assert_panic"
    /\ \E h \in closure :
          /\ cache[h].kind = "Output"
          /\ cache[h].deriver # h
          /\ SelfDeriving(cache, cache[h].deriver)

\* C19: the list `missing` of returned statistics is strictly increasing.
C19_MissingStrictlySorted ==
    stats.returned =>
        \A j, k \in 1..Len(stats.missing) : j < k => stats.missing[j] < stats.missing[k]

\* Statistics of a Closure that holds a Drv, an Output of it, and a greater
\* hash without entry: the name is pushed twice, and before a smaller string.
C19_Witness ==
    /\ stats.returned
    /\ Len(stats.missing) >= 2
    /\ \E a, b, d \in closure :
          /\ cache[a].kind = "Output" /\ cache[a].deriver = d
          /\ cache[d].kind = "Drv"
          /\ cache[b].kind = "None" /\ d < b

\* The end of the deriver chain of h, and the entry there.
ClassifiedAt(c, h) == CHOOSE g \in DeriverChain(c, {h}) : c[g].kind # "Output"

Classified(c, h) == c[ClassifiedAt(c, h)]

RECURSIVE SumOver(_, _, _)
SumOver(S, c, field) ==
    IF S = {} THEN 0
    ELSE LET h == CHOOSE h \in S : TRUE
         IN  Classified(c, h).narinfo[field] + SumOver(S \ {h}, c, field)

\* C20: returned statistics count each hash of the Closure once, by the entry
\* at the end of its deriver chain: a NarInfo is found and adds its sizes, a
\* Drv adds its name to `missing`, a Source adds nothing and a hash without
\* entry adds its string; so found <= total and found + |missing| <= total.
C20_EachHashClassifiedOnce ==
    stats.returned =>
        LET found == { h \in closure : Classified(cache, h).kind = "NarInfo" }
            drvs == { h \in closure : Classified(cache, h).kind = "Drv" }
            none == { h \in closure : Classified(cache, h).kind = "None" }
        IN  /\ stats.total = Cardinality(closure)
            /\ stats.found = Cardinality(found)
            /\ stats.file_size = SumOver(found, cache, "file_size")
            /\ stats.nar_size = SumOver(found, cache, "nar_size")
            /\ Seqs(stats.missing) =
                  { find_name(Classified(cache, h).drv) : h \in drvs }
                      \cup { to_str(ClassifiedAt(cache, h)) : h \in none }
            /\ stats.found <= stats.total
            /\ stats.found + Len(stats.missing) <= stats.total

\* Statistics of a Closure with a NarInfo, a Source, a Drv and a hash without
\* entry.
C20_Witness ==
    /\ stats.returned
    /\ \E a, b, d, e \in closure :
          /\ cache[a].kind = "NarInfo"
          /\ cache[b].kind = "Source"
          /\ cache[d].kind = "Drv"
          /\ cache[e].kind = "None"

----------------------------------------------------------------------------
(* The order of the cache roots *)

\* A well-formed metadata record.
IsRecord(resp) == resp.kind = "reply" /\ resp.status # NOT_FOUND /\ resp.body.bytes = "narinfo"

\* The step hands the lookup of h the record it resolves to.
Hit(h) == Responded(h) /\ IsRecord(ev'.resp)

\* The lookup of h goes from one cache root to another.
ChangesRoot(h) ==
    /\ Waiting(lookups[h]) /\ Waiting(lookups'[h])
    /\ lookups'[h].root # lookups[h].root

\* The last attempt that the cache root of the lookup allows has failed.
Exhausted(h) ==
    /\ lookups[h].phase = "sleep" /\ ev'.type = "wake" /\ ev'.hash = h
    /\ sent[h][lookups[h].root] = opts.retries

\* The record of a hit is merged from the root that was asked, every earlier
\* root has been asked and no later one, and the lookup is over.
HitFromCurrentRoot(h) ==
    LET r == lookups[h].root
    IN  /\ cache'[h].kind = "NarInfo"
        /\ cache'[h].narinfo.sig = r
        /\ \A q \in 1..Len(opts.cache_roots) :
              /\ q < r => sent[h][q] >= 1
              /\ q > r => sent[h][q] = 0
        /\ lookups'[h].phase = "idle"
        /\ results'[h] = Resolved(Some(cache'[h].narinfo))
        /\ sent'[h] = NoSent[h]

\* C22: cache roots are tried in list order and the first hit wins: the record
\* merged for a hash comes from the lowest-indexed root that returned a
\* well-formed record, a lookup goes on to the next root only after an absent
\* answer (status 404 or the body "404") or after its attempts are exhausted,
\* and no request follows the record.
C22_FirstHitWins ==
    [][\A h \in Hashes :
         /\ Hit(h) => HitFromCurrentRoot(h)
         /\ ChangesRoot(h) =>
               /\ lookups'[h].root = lookups[h].root + 1
               /\ (Responded(h) /\ IsAbsent(ev'.resp)) \/ Exhausted(h)
         /\ (pc = "fetching" /\ results[h].done) =>
               (lookups'[h].phase = "idle" /\ sent'[h] = sent[h])
      ]_vars

\* As C22, with a body that does not parse counted among the absent answers.
C22_FirstHitWinsAsCoded ==
    [][\A h \in Hashes :
         /\ Hit(h) => HitFromCurrentRoot(h)
         /\ ChangesRoot(h) =>
               /\ lookups'[h].root = lookups[h].root + 1
               /\ \/ Responded(h) /\ (IsAbsent(ev'.resp) \/ IsMalformed(ev'.resp))
                  \/ Exhausted(h)
         /\ (pc = "fetching" /\ results[h].done) =>
               (lookups'[h].phase = "idle" /\ sent'[h] = sent[h])
      ]_vars

\* The second of two cache roots has served the record that was merged, after
\* the first root used up two attempts.
C22_Witness ==
    \E h \in Hashes :
        /\ ev.type = "response" /\ ev.hash = h
        /\ IsRecord(ev.resp)
        /\ ev.resp.body.sig = 2
        /\ cache[h].kind = "NarInfo" /\ cache[h].narinfo.sig = 2
        /\ opts.retries = 2
        /\ results[h].done

----------------------------------------------------------------------------
(* The deriver chains of a reachable StoreCache *)

\* The hashes that the classification of h passes after h.
Derivers(c, h) ==
    IF c[h].kind = "Output" THEN DeriverChain(c, {c[h].deriver}) ELSE {}

\* C23: a reachable StoreCache has no cycle of two or more hashes along
\* Output -> deriver (the one cycle there can be is an Output that is its own
\* deriver), so the classification of every hash ends at an entry that is no
\* Output or at the self-derivation assertion.
C23_NoDeriverCycle ==
    \A h \in Hashes :
        /\ h \in Derivers(cache, h) => SelfDeriving(cache, h)
        /\ \E g \in DeriverChain(cache, {h}) :
              cache[g].kind # "Output" \/ SelfDeriving(cache, g)
        /\ LET st == process([ok |-> TRUE, stats |-> NoStats], cache, h)
           IN  st.ok <=> ~\E g \in DeriverChain(cache, {h}) : SelfDeriving(cache, g)

\* Statistics have been computed over a Closure with an Output whose deriver
\* is stored as an Output of another derivation.
C23_Witness ==
    /\ ev.type = "coverage"
    /\ stats.returned
    /\ \E h \in closure :
          /\ cache[h].kind = "Output"
          /\ cache[h].deriver # h
          /\ cache[cache[h].deriver].kind = "Output"
          /\ cache[cache[h].deriver].deriver \notin {h, cache[h].deriver}

----------------------------------------------------------------------------
(* Termination and memoization of discover_build_time_closure *)

Files(files) == { h \in Hashes : files[h] # NoFile }

PathHashes(paths) == { from_path(paths[k]) : k \in 1..Len(paths) }

\* The hashes of the paths of derivations, of input sources and of outputs.
DrvHashes(files) ==
    Files(files) \cup UNION { { from_path(files[h].input_drvs[k].path) :
                                  k \in 1..Len(files[h].input_drvs) } : h \in Files(files) }
SrcHashes(files) == UNION { PathHashes(files[h].input_srcs) : h \in Files(files) }
OutHashes(files) ==
    UNION { { from_path(files[h].outputs[k].path) : k \in 1..Len(files[h].outputs) } :
              h \in Files(files) }

PairwiseDistinct(files) ==
    /\ DrvHashes(files) \cap SrcHashes(files) = {}
    /\ DrvHashes(files) \cap OutHashes(files) = {}
    /\ SrcHashes(files) \cap OutHashes(files) = {}

\* Each file is read at most once by the calls made so far.
ReadAtMostOnce == \A h \in Hashes : history.reads[h] <= 1

\* C24: every call of discover_build_time_closure comes back, whatever the
\* derivation files refer to; a hash is in the map when its input derivations
\* are visited, the body runs at most once per hash over all calls, and when
\* the hashes of derivations, sources and outputs are pairwise distinct each
\* derivation file is read at most once over all calls.
C24_DiscoverTerminatesOnce ==
    /\ \A h \in Hashes : history.bodies[h] <= 1
    /\ PairwiseDistinct(fs) => ReadAtMostOnce
    /\ call.op = "discover" =>
          /\ pc \in {"idle", "panicked"}
          /\ \A k \in 1..Len(call.log) :
                call.log[k].type = "visit" => call.log[k].inserted
          /\ \A h \in Hashes : Count(call.log, "body")[h] <= 1

\* Two derivation files that are each other's input derivation, all hashes
\* pairwise distinct: the call has run both bodies and read the second file,
\* and the visit of the first hash from the second has come back at once.
C24_Witness ==
    /\ call.op = "discover" /\ call.hash = 1 /\ pc = "idle"
    /\ PairwiseDistinct(fs)
    /\ history.bodies[1] = 1 /\ history.bodies[2] = 1
    /\ history.reads[1] = 0 /\ history.reads[2] = 1
    /\ \E k \in 1..Len(call.log) :
          /\ call.log[k].type = "visit"
          /\ call.log[k].hash = 1 /\ call.log[k].from = 2
          /\ k = Len(call.log)

----------------------------------------------------------------------------
(* Decoding of derivation files *)

\* The place of the symbol at position pos of the text that was changed.
RoleAt(pos) ==
    LET marked == SampleMarks[parse.from]
    IN  IF pos \in 1..Len(marked) THEN marked[pos].role ELSE "end"

\* Symbols were put behind the closing parenthesis.
TrailingBytes ==
    /\ parse.edit.kind \in {"insert", "escape"}
    /\ RoleAt(parse.edit.pos) = "end"

\* The quote that closes a string was left out, or the text ends in a string.
UnterminatedString ==
    \/ parse.edit.kind = "delete" /\ RoleAt(parse.edit.pos) = "close"
    \/ parse.edit.kind = "truncate" /\ RoleAt(parse.edit.pos) \in {"body", "esc", "close"}

\* A backslash and a symbol that is no escape were put between two characters
\* of a string.
BadEscape ==
    /\ parse.edit.kind = "escape"
    /\ RoleAt(parse.edit.pos) \in {"body", "close"}
    /\ parse.edit.sym \notin {"backslash", "quote", "n", "t"}

\* C21: Drv::read_from returns a Drv only if the whole text is one Derive(...)
\* of the grammar, namely the text of the Drv it returns; a text with symbols
\* behind the closing parenthesis, with a string that is not closed, or with a
\* backslash before a symbol other than backslash, quote, n and t ends in a
\* panic, and no Drv is returned.
C21_WholeTextOrPanic ==
    parse.result # NotRead =>
        /\ parse.result.state \in {"ok", "panic"}
        /\ parse.result.state = "ok" => Unparse(parse.result.drv) = parse.text
        /\ (TrailingBytes \/ UnterminatedString \/ BadEscape) => parse.result = Panicked

\* The text of the second sample with `backslash a` put between two
\* characters of a string has ended in the panic.
C21_Witness ==
    /\ parse.result = Panicked
    /\ parse.from = 2
    /\ BadEscape
    /\ parse.edit.sym = "a"
    /\ RoleAt(parse.edit.pos) = "body"

====
